---- MODULE Spec2Model ----
(***************************************************************************)
(* Model of reparo/syncer/translate.go: the translation of one binlog      *)
(* record (pb.Binlog) into a loader.Txn.                                    *)
(*                                                                         *)
(* pbBinlogToTxn is a pure, synchronous function.  The state is the record *)
(* handed to it and what the call left behind: the returned (txn, err)     *)
(* pair, or a Go run-time panic that unwinds the call.                     *)
(*                                                                         *)
(* The SQL parser (pingcap/parser) and the value codec (tidb/util/codec)   *)
(* are libraries.  A DDL text is represented by what the parser makes of   *)
(* it (a parse error, or the list of statement nodes); an encoded value is *)
(* a sequence of bytes that DecodeOne really decodes.                      *)
(***************************************************************************)
EXTENDS Integers, Sequences, FiniteSets, TLC

VARIABLES binlog, pc, txn, err

vars == <<binlog, pc, txn, err>>

\* a nil error
Nil == "nil"
\* a nil pointer (*loader.Txn, *loader.DDL, *pb.DMLData)
NilPtr == [nil |-> TRUE]

(***************************************************************************)
(* Bounds of the model.                                                    *)
(***************************************************************************)
MaxStmts == 3
MaxEvents == 2
MaxCols == 2

\* the sequences over S of length 0..n
SeqsUpTo(S, n) == UNION {[1..m -> S] : m \in 0..n}

(***************************************************************************)
(* DDL: the statement nodes the parser returns.                            *)
(***************************************************************************)
DBNames == {"db1", "db2"}
Qualifiers == {"", "db2"}

TableName(schemas, names) == [Schema : schemas, Name : names]

SingleTableKinds ==
    {"TruncateTableStmt", "CreateIndexStmt", "CreateTableStmt", "DropIndexStmt", "AlterTableStmt"}

TableBearingKinds == SingleTableKinds \cup {"DropTableStmt", "RenameTableStmt"}

UseStmts == [kind : {"UseStmt"}, DBName : DBNames]
DatabaseStmts == [kind : {"CreateDatabaseStmt", "DropDatabaseStmt"}, Name : DBNames]
SingleTableStmts == [kind : SingleTableKinds, Table : TableName(Qualifiers, {"t1"})]
DropTableStmts ==
    [kind : {"DropTableStmt"},
     Tables : {<<a>> : a \in TableName(Qualifiers, {"t1"})}
              \cup {<<a, b>> : a \in TableName(Qualifiers, {"t1"}),
                               b \in TableName({"db1"}, {"t2"})}]
RenameTableStmts ==
    [kind : {"RenameTableStmt"},
     OldTable : TableName({"", "db1"}, {"t1"}),
     NewTable : TableName(Qualifiers, {"t2"})]
\* any statement the resolver has no case for (SELECT, INSERT, ...)
OtherStmts == [kind : {"SelectStmt"}]

Stmts ==
    UseStmts \cup DatabaseStmts \cup SingleTableStmts \cup DropTableStmts
    \cup RenameTableStmts \cup OtherStmts

\* A DDL text: one the parser rejects, or one it parses into statements.
DDLQueries ==
    {[parses |-> FALSE, stmts |-> <<>>]}
    \cup [parses : {TRUE}, stmts : SeqsUpTo(Stmts, MaxStmts)]

\* parser.New().Parse(ddlQuery, "", "")
Parse(ddlQuery) ==
    IF ddlQuery.parses
    THEN [stmts |-> ddlQuery.stmts, err |-> Nil]
    ELSE [stmts |-> <<>>, err |-> "parse error"]

\* One iteration of the loop over stmts: the type switch on the node.
\* st is <<haveUseStmt, schema, table, err>> before the node.
SetTable(st, t) ==
    [st EXCEPT !.schema = IF Len(t.Schema) # 0 THEN t.Schema ELSE @,
               !.table = t.Name]

SwitchStmt(st, node) ==
    CASE node.kind = "UseStmt" ->
            [st EXCEPT !.haveUseStmt = TRUE, !.schema = node.DBName]
      [] node.kind = "CreateDatabaseStmt" -> [st EXCEPT !.schema = node.Name]
      [] node.kind = "DropDatabaseStmt" -> [st EXCEPT !.schema = node.Name]
      [] node.kind \in SingleTableKinds -> SetTable(st, node.Table)
      [] node.kind = "DropTableStmt" -> SetTable(st, node.Tables[1])
      [] node.kind = "RenameTableStmt" -> SetTable(st, node.NewTable)
      [] OTHER -> [st EXCEPT !.err = "unknown ddl type"]

RECURSIVE WalkStmts(_, _, _)
WalkStmts(stmts, i, st) ==
    IF i > Len(stmts) \/ st.err # Nil THEN st
    ELSE WalkStmts(stmts, i + 1, SwitchStmt(st, stmts[i]))

\* The final check of the statement count.
CountOK_AtLeast(haveUseStmt, n) == IF haveUseStmt THEN n >= 2 ELSE n = 1

CountOK(haveUseStmt, n) == IF haveUseStmt THEN n = 2 ELSE n = 1

parserSchemaTableFromDDL(ddlQuery) ==
    LET p == Parse(ddlQuery)
        st == WalkStmts(p.stmts, 1,
                        [haveUseStmt |-> FALSE, schema |-> "", table |-> "", err |-> Nil])
    IN  IF p.err # Nil THEN [schema |-> "", table |-> "", err |-> p.err]
        ELSE IF st.err # Nil THEN [schema |-> "", table |-> "", err |-> st.err]
        ELSE IF ~CountOK(st.haveUseStmt, Len(p.stmts))
             THEN [schema |-> "", table |-> "", err |-> "invalid ddl"]
        ELSE [schema |-> st.schema, table |-> st.table, err |-> Nil]

(***************************************************************************)
(* The value codec.  An encoded value is a flag byte followed by its data; *)
(* integers are zig-zag varints (one byte here), byte strings carry a      *)
(* varint length.                                                          *)
(***************************************************************************)
NilFlag == 0
compactBytesFlag == 2
varintFlag == 8

ZigZag(u) == IF u % 2 = 0 THEN u \div 2 ELSE -((u + 1) \div 2)

\* codec.DecodeOne(b): (remain, datum, err); the remainder is never read here
DecodeOne(b) ==
    IF Len(b) < 1 THEN [d |-> [k |-> "null", v |-> <<>>], err |-> "invalid encoded key"]
    ELSE CASE b[1] = NilFlag -> [d |-> [k |-> "null", v |-> <<>>], err |-> Nil]
           [] b[1] = varintFlag ->
                IF Len(b) < 2
                THEN [d |-> [k |-> "null", v |-> <<>>], err |-> "value larger than 64 bits"]
                ELSE [d |-> [k |-> "int64", v |-> <<ZigZag(b[2])>>], err |-> Nil]
           [] b[1] = compactBytesFlag ->
                IF Len(b) < 2 \/ ZigZag(b[2]) < 0 \/ Len(b) < 2 + ZigZag(b[2])
                THEN [d |-> [k |-> "null", v |-> <<>>], err |-> "insufficient bytes to decode value"]
                ELSE [d |-> [k |-> "bytes", v |-> SubSeq(b, 3, 2 + ZigZag(b[2]))], err |-> Nil]
           [] OTHER -> [d |-> [k |-> "null", v |-> <<>>], err |-> "invalid encoded key flag"]

\* mysql type tags (the first byte of Column.Tp)
TypeLong == 3
TypeVarchar == 15
StringTypes == {TypeVarchar}

\* formatValue(value, tp): the type-directed formatting pass.  A nil datum is
\* kept; a datum of a string-like column becomes its string form; any other
\* datum is kept as the codec gave it.
formatValue(value, tp) ==
    IF value.k = "null" THEN value
    ELSE IF tp \in StringTypes THEN [k |-> "string", v |-> value.v]
    ELSE value

(***************************************************************************)
(* DML: the encoded payloads, column entries, rows and events.             *)
(***************************************************************************)
\* empty (undecodable), the integer 1, the one-byte string "x"
Payloads == {<<>>, <<varintFlag, 2>>, <<compactBytesFlag, 2, 120>>}
ColNames == {"a", "b"}
TypeTags == {<<>>, <<TypeLong>>, <<TypeVarchar>>}

\* A column entry of event.Row: bytes that do not unmarshal, or a pb.Column.
\* Insert and Delete rows carry no changed value.
BadEntry == [unmarshals |-> FALSE, Name |-> "", Tp |-> <<>>, Value |-> <<>>, ChangedValue |-> <<>>]
EntriesOne ==
    {BadEntry} \cup [unmarshals : {TRUE}, Name : ColNames, Tp : TypeTags,
                     Value : Payloads, ChangedValue : {<<>>}]
EntriesTwo ==
    {BadEntry} \cup [unmarshals : {TRUE}, Name : ColNames, Tp : TypeTags,
                     Value : Payloads, ChangedValue : Payloads]

\* col.Unmarshal(c)
Unmarshal(c) == IF c.unmarshals THEN [col |-> c, err |-> Nil] ELSE [col |-> c, err |-> "unexpected EOF"]

Insert == "Insert"
Update == "Update"
Delete == "Delete"
\* an event type outside the three the producer defines
UnknownEventType == "EventType(3)"
EventTypes == {Insert, Update, Delete, UnknownEventType}

\* Events with full rows of up to MaxCols entries ...
RichEvents ==
    [SchemaName : {"db1"}, TableName : {"t1"}, Tp : {Insert, Delete, UnknownEventType},
     Row : SeqsUpTo(EntriesOne, MaxCols)]
    \cup [SchemaName : {"db1"}, TableName : {"t1"}, Tp : {Update},
          Row : SeqsUpTo(EntriesTwo, MaxCols)]

\* ... and events of at most one entry, for the records of several events.
GoodEntry == [unmarshals |-> TRUE, Name |-> "a", Tp |-> <<TypeLong>>,
              Value |-> <<varintFlag, 2>>, ChangedValue |-> <<varintFlag, 4>>]
PlainEntries ==
    {BadEntry, GoodEntry,
     [GoodEntry EXCEPT !.Tp = <<>>],
     [GoodEntry EXCEPT !.Value = <<>>],
     [GoodEntry EXCEPT !.ChangedValue = <<>>]}
PlainEvents ==
    [SchemaName : {"db1"}, TableName : {"t1", "t2"}, Tp : EventTypes,
     Row : {<<>>} \cup {<<c>> : c \in PlainEntries}]

EventLists ==
    {<<e>> : e \in RichEvents} \cup SeqsUpTo(PlainEvents, MaxEvents)

\* binlog.DmlData: a nil pointer, or the events
DMLDatas == {NilPtr} \cup [Events : EventLists]

\* data.GetEvents() is nil-safe
GetEvents(data) == IF data = NilPtr THEN <<>> ELSE data.Events

(***************************************************************************)
(* genColsAndArgs and the Update loop: one pass over the row's entries.    *)
(***************************************************************************)
RECURSIVE genColsAndArgsFrom(_, _, _, _)
genColsAndArgsFrom(row, i, cols, args) ==
    IF i > Len(row) THEN [outcome |-> "return", cols |-> cols, args |-> args, err |-> Nil]
    ELSE LET u == Unmarshal(row[i])
             col == u.col
             dec == DecodeOne(col.Value)
         IN  IF u.err # Nil
             THEN [outcome |-> "return", cols |-> <<>>, args |-> <<>>, err |-> u.err]
             ELSE IF dec.err # Nil
             THEN [outcome |-> "return", cols |-> <<>>, args |-> <<>>, err |-> dec.err]
             ELSE IF Len(col.Tp) = 0   \* col.Tp[0]: index out of range
             THEN [outcome |-> "panic", cols |-> <<>>, args |-> <<>>, err |-> Nil]
             ELSE genColsAndArgsFrom(row, i + 1, Append(cols, col.Name),
                                     Append(args, formatValue(dec.d, col.Tp[1])))

genColsAndArgs(row) == genColsAndArgsFrom(row, 1, <<>>, <<>>)

\* m[key] = value on a Go map
MapSet(m, key, value) ==
    [k \in DOMAIN m \cup {key} |-> IF k = key THEN value ELSE m[k]]

EmptyMap == [k \in {} |-> [k |-> "null", v |-> <<>>]]

\* for i := 0; i < len(cols); i++ { dml.Values[cols[i]] = args[i] }
RECURSIVE FillValues_OffByOne(_, _, _, _)
FillValues_OffByOne(m, cols, args, i) ==
    IF i >= Len(cols) THEN m
    ELSE FillValues_OffByOne(MapSet(m, cols[i], args[i]), cols, args, i + 1)

RECURSIVE FillValues(_, _, _, _)
FillValues(m, cols, args, i) ==
    IF i > Len(cols) THEN m
    ELSE FillValues(MapSet(m, cols[i], args[i]), cols, args, i + 1)

\* oldDatum = formatValue(oldDatum, tp); oldValue := oldDatum.GetValue()
OldValueOf_Unformatted(oldDatum, tp) == oldDatum

OldValueOf(oldDatum, tp) == formatValue(oldDatum, tp)

\* the loop of the Update case over event.GetRow()
RECURSIVE UpdateFrom(_, _, _, _)
UpdateFrom(row, i, values, oldValues) ==
    IF i > Len(row)
    THEN [outcome |-> "return", Values |-> values, OldValues |-> oldValues, err |-> Nil]
    ELSE LET u == Unmarshal(row[i])
             col == u.col
             old == DecodeOne(col.Value)
             new == DecodeOne(col.ChangedValue)
         IN  IF u.err # Nil
             THEN [outcome |-> "return", Values |-> EmptyMap, OldValues |-> EmptyMap, err |-> u.err]
             ELSE IF old.err # Nil
             THEN [outcome |-> "return", Values |-> EmptyMap, OldValues |-> EmptyMap, err |-> old.err]
             ELSE IF new.err # Nil
             THEN [outcome |-> "return", Values |-> EmptyMap, OldValues |-> EmptyMap, err |-> new.err]
             ELSE IF Len(col.Tp) = 0   \* col.Tp[0]: index out of range
             THEN [outcome |-> "panic", Values |-> EmptyMap, OldValues |-> EmptyMap, err |-> Nil]
             ELSE UpdateFrom(row, i + 1,
                             MapSet(values, col.Name, formatValue(new.d, col.Tp[1])),
                             MapSet(oldValues, col.Name, OldValueOf(old.d, col.Tp[1])))

(***************************************************************************)
(* pbBinlogToTxn.                                                          *)
(***************************************************************************)
InsertDMLType == "InsertDMLType"
UpdateDMLType == "UpdateDMLType"
DeleteDMLType == "DeleteDMLType"

\* dml := new(loader.DML) with Database and Table set
NewDML(event) ==
    [Database |-> event.SchemaName, Table |-> event.TableName, Tp |-> "",
     Values |-> EmptyMap, OldValues |-> EmptyMap]

\* the body of the loop over the events: the switch on event.GetTp()
SwitchEvent(event) ==
    LET dml == NewDML(event)
        g == genColsAndArgs(event.Row)
        u == UpdateFrom(event.Row, 1, EmptyMap, EmptyMap)
    IN  CASE event.Tp = Insert ->
                [outcome |-> g.outcome, err |-> g.err,
                 dml |-> [dml EXCEPT !.Tp = InsertDMLType,
                                     !.Values = FillValues(EmptyMap, g.cols, g.args, 1)]]
          [] event.Tp = Update ->
                [outcome |-> u.outcome, err |-> u.err,
                 dml |-> [dml EXCEPT !.Tp = UpdateDMLType,
                                     !.Values = u.Values, !.OldValues = u.OldValues]]
          [] event.Tp = Delete ->
                [outcome |-> g.outcome, err |-> g.err,
                 dml |-> [dml EXCEPT !.Tp = DeleteDMLType,
                                     !.Values = FillValues(EmptyMap, g.cols, g.args, 1)]]
          [] OTHER -> [outcome |-> "return", err |-> "unknown type", dml |-> dml]

\* txn.DMLs = append(txn.DMLs, dml).  The code appends the pointer before the
\* switch fills the operation in; every failure of the switch returns nil, so
\* appending the filled operation after the switch yields the same results.
AppendDML_Prepend(dmls, dml) == <<dml>> \o dmls

AppendDML(dmls, dml) == Append(dmls, dml)

RECURSIVE EventsFrom(_, _, _)
EventsFrom(events, i, dmls) ==
    IF i > Len(events)
    THEN [outcome |-> "return", txn |-> [DDL |-> NilPtr, DMLs |-> dmls], err |-> Nil]
    ELSE LET r == SwitchEvent(events[i])
         IN  IF r.outcome = "panic" THEN [outcome |-> "panic", txn |-> NilPtr, err |-> Nil]
             ELSE IF r.err # Nil THEN [outcome |-> "return", txn |-> NilPtr, err |-> r.err]
             ELSE EventsFrom(events, i + 1, AppendDML(dmls, r.dml))

\* if len(txn.DDL.Database) == 0
EmptyDatabase_Unchecked(database) == FALSE

EmptyDatabase(database) == Len(database) = 0

BinlogType_DML == "DML"
BinlogType_DDL == "DDL"

pbBinlogToTxn(b) ==
    CASE b.Tp = BinlogType_DDL ->
            LET r == parserSchemaTableFromDDL(b.DdlQuery)
            IN  IF r.err # Nil THEN [outcome |-> "return", txn |-> NilPtr, err |-> r.err]
                ELSE IF EmptyDatabase(r.schema)
                THEN [outcome |-> "return", txn |-> NilPtr, err |-> "can't parse database name from DDL"]
                ELSE [outcome |-> "return", err |-> Nil,
                      txn |-> [DDL |-> [SQL |-> b.DdlQuery, Database |-> r.schema, Table |-> r.table],
                               DMLs |-> <<>>]]
      [] b.Tp = BinlogType_DML -> EventsFrom(GetEvents(b.DmlData), 1, <<>>)
      [] OTHER -> [outcome |-> "return", txn |-> NilPtr, err |-> "unknown type"]

(***************************************************************************)
(* The records and the state machine: a record is handed over (pc =        *)
(* "call"), and the call returns or panics.                                *)
(***************************************************************************)
NoQuery == [parses |-> FALSE, stmts |-> <<>>]

DDLBinlogs == [Tp : {BinlogType_DDL}, DdlQuery : DDLQueries, DmlData : {NilPtr}]
DMLBinlogs == [Tp : {BinlogType_DML}, DdlQuery : {NoQuery}, DmlData : DMLDatas]
\* a record type outside the two the producer defines
OtherBinlogs == [Tp : {"BinlogType(2)"}, DdlQuery : {NoQuery}, DmlData : {NilPtr}]

Start(records) ==
    /\ binlog \in records
    /\ pc = "call"
    /\ txn = NilPtr
    /\ err = Nil

Call ==
    /\ pc = "call"
    /\ LET r == pbBinlogToTxn(binlog)
       IN  /\ pc' = IF r.outcome = "panic" THEN "panicked" ELSE "returned"
           /\ txn' = r.txn
           /\ err' = r.err
    /\ UNCHANGED binlog

CaseDDL == binlog.Tp = BinlogType_DDL /\ Call
CaseDML == binlog.Tp = BinlogType_DML /\ Call
CaseDefault == binlog.Tp \notin {BinlogType_DDL, BinlogType_DML} /\ Call

Init == Start(DDLBinlogs \cup DMLBinlogs \cup OtherBinlogs)
Next == CaseDDL \/ CaseDML \/ CaseDefault
Spec == Init /\ [][Next]_vars

InitDDL == Start(DDLBinlogs \cup OtherBinlogs)
NextDDL == CaseDDL \/ CaseDefault
SpecDDL == InitDDL /\ [][NextDDL]_vars

InitDML == Start(DMLBinlogs)
NextDML == CaseDML
SpecDML == InitDML /\ [][NextDML]_vars

(***************************************************************************)
(* What the claims speak of.                                               *)
(***************************************************************************)
IsDDL == binlog.Tp = BinlogType_DDL
IsDML == binlog.Tp = BinlogType_DML
Events == GetEvents(binlog.DmlData)
ParsedStmts == binlog.DdlQuery.stmts

Done == pc # "call"
Succeeded == pc = "returned" /\ err = Nil /\ txn # NilPtr
Failed == pc = "returned" /\ err # Nil /\ txn = NilPtr

DMLTypeOf(tp) ==
    CASE tp = Insert -> InsertDMLType
      [] tp = Update -> UpdateDMLType
      [] tp = Delete -> DeleteDMLType
      [] OTHER -> ""

\* the entry cannot be unmarshalled, or the codec fails on a payload that the
\* event's kind reads
EntryFails(tp, c) ==
    \/ ~c.unmarshals
    \/ DecodeOne(c.Value).err # Nil
    \/ tp = Update /\ DecodeOne(c.ChangedValue).err # Nil

EventFails(e) ==
    \/ e.Tp \notin {Insert, Update, Delete}
    \/ \E j \in 1..Len(e.Row) : EntryFails(e.Tp, e.Row[j])

NamesOf(row) == {row[j].Name : j \in 1..Len(row)}

\* entry j is the last entry of the row that carries its column name
LastOfName(row, j) == \A k \in (j + 1)..Len(row) : row[k].Name # row[j].Name

\* the decoded and formatted value of a payload under the entry's type tag
Formatted(payload, c) == formatValue(DecodeOne(payload).d, c.Tp[1])

(***************************************************************************)
(* C1  No partial results: when a row event of a DML record fails (unknown *)
(* kind, entry that does not unmarshal, codec failure on a payload), the   *)
(* call returns an error and no transaction.                               *)
(***************************************************************************)
C1_FailingEventReturnsError ==
    (Done /\ IsDML /\ \E i \in 1..Len(Events) : EventFails(Events[i])) => Failed

(***************************************************************************)
(* C2  Order preservation: a DML record whose events all translate yields  *)
(* exactly one operation per event, the i-th carrying the schema, table    *)
(* and kind of the i-th event.                                             *)
(***************************************************************************)
C2_OrderPreserved ==
    (Succeeded /\ IsDML) =>
        /\ Len(txn.DMLs) = Len(Events)
        /\ \A i \in 1..Len(Events) :
              /\ txn.DMLs[i].Database = Events[i].SchemaName
              /\ txn.DMLs[i].Table = Events[i].TableName
              /\ txn.DMLs[i].Tp = DMLTypeOf(Events[i].Tp)

C2_Witness ==
    /\ Succeeded /\ IsDML /\ Len(Events) >= 2
    /\ Events[1].TableName # Events[2].TableName
    /\ Events[1].Tp # Events[2].Tp

(***************************************************************************)
(* C4  Totality: every call ends by returning a transaction or an error;   *)
(* none ends abnormally.                                                   *)
(***************************************************************************)
C4_ReturnsTxnOrError == Done => (Succeeded \/ Failed)

UpdateSymmetric(e, dml, entries(_, _)) ==
    /\ DOMAIN dml.Values = DOMAIN dml.OldValues
    /\ DOMAIN dml.Values = NamesOf(e.Row)
    /\ \A j \in 1..Len(e.Row) :
          (entries(e.Row, j) /\ e.Row[j].Value = e.Row[j].ChangedValue)
              => dml.Values[e.Row[j].Name] = dml.OldValues[e.Row[j].Name]

AnyEntry(row, j) == TRUE

(***************************************************************************)
(* C6  Update symmetry.  As claimed: for an Update event that translates,  *)
(* Values and OldValues have the same keys, the column names of the row,   *)
(* and every entry whose two payloads are identical has equal values in    *)
(* the two maps.                                                           *)
(***************************************************************************)
C6_UpdateSymmetry_AsClaimed ==
    (Succeeded /\ IsDML) =>
        \A i \in 1..Len(Events) :
            Events[i].Tp = Update => UpdateSymmetric(Events[i], txn.DMLs[i], AnyEntry)

\* C6 as amended: the same, the equality of values holding for every entry
\* that is the last one of its column name (a later entry of the same name
\* overwrites both maps).
C6_UpdateSymmetry ==
    (Succeeded /\ IsDML) =>
        \A i \in 1..Len(Events) :
            Events[i].Tp = Update => UpdateSymmetric(Events[i], txn.DMLs[i], LastOfName)

\* an Update with a string column whose two payloads are the same bytes, and
\* an entry that a later entry of the same name overwrites
C6_Witness ==
    /\ Succeeded /\ IsDML /\ Len(Events) = 1 /\ Events[1].Tp = Update
    /\ \E j \in 1..Len(Events[1].Row) :
          LET c == Events[1].Row[j]
          IN  /\ LastOfName(Events[1].Row, j)
              /\ c.Value = c.ChangedValue
              /\ c.Tp = <<TypeVarchar>>
              /\ txn.DMLs[1].Values[c.Name].k = "string"
    /\ \E j \in 1..Len(Events[1].Row) : ~LastOfName(Events[1].Row, j)

(***************************************************************************)
(* C7  Insert/Delete value map.  As claimed: for an Insert or Delete event *)
(* of N entries that translates, Values has exactly N keys, the column     *)
(* names, each mapped to the decoded and formatted value of that entry's   *)
(* payload, and OldValues is empty.                                        *)
(***************************************************************************)
C7_ValueMap_AsClaimed ==
    (Succeeded /\ IsDML) =>
        \A i \in 1..Len(Events) :
            Events[i].Tp \in {Insert, Delete} =>
                LET row == Events[i].Row
                    dml == txn.DMLs[i]
                IN  /\ Cardinality(DOMAIN dml.Values) = Len(row)
                    /\ DOMAIN dml.Values = NamesOf(row)
                    /\ \A j \in 1..Len(row) :
                          dml.Values[row[j].Name] = Formatted(row[j].Value, row[j])
                    /\ DOMAIN dml.OldValues = {}

\* C7 as amended: Values has exactly one key per distinct column name of the
\* row, mapped to the decoded and formatted value of the last entry of that
\* name, and OldValues is empty.
C7_ValueMap ==
    (Succeeded /\ IsDML) =>
        \A i \in 1..Len(Events) :
            Events[i].Tp \in {Insert, Delete} =>
                LET row == Events[i].Row
                    dml == txn.DMLs[i]
                IN  /\ DOMAIN dml.Values = NamesOf(row)
                    /\ \A j \in 1..Len(row) :
                          LastOfName(row, j) =>
                              dml.Values[row[j].Name] = Formatted(row[j].Value, row[j])
                    /\ DOMAIN dml.OldValues = {}

\* a Delete of two entries of one name and different payloads, the second a
\* string column: the map holds the one key with the second entry's value
C7_Witness ==
    /\ Succeeded /\ IsDML /\ Len(Events) = 1 /\ Events[1].Tp = Delete
    /\ Len(Events[1].Row) = 2
    /\ Events[1].Row[1].Name = Events[1].Row[2].Name
    /\ Events[1].Row[1].Value # Events[1].Row[2].Value
    /\ Events[1].Row[2].Tp = <<TypeVarchar>>
    /\ Cardinality(DOMAIN txn.DMLs[1].Values) = 1
    /\ txn.DMLs[1].Values[Events[1].Row[2].Name].k = "string"

(***************************************************************************)
(* The resolver's view of a DDL record.                                    *)
(***************************************************************************)
Resolved == parserSchemaTableFromDDL(binlog.DdlQuery)
ResolverDone == Done /\ IsDDL
ResolverSucceeded == ResolverDone /\ Resolved.err = Nil

IsUse(stmt) == stmt.kind = "UseStmt"
HasUse(stmts) == \E i \in 1..Len(stmts) : IsUse(stmts[i])
RecognisedKinds ==
    {"UseStmt", "CreateDatabaseStmt", "DropDatabaseStmt"} \cup TableBearingKinds
AllRecognised(stmts) == \A i \in 1..Len(stmts) : stmts[i].kind \in RecognisedKinds

\* the table a table-bearing statement is resolved to, by the claims
TargetOf(stmt) ==
    CASE stmt.kind \in SingleTableKinds -> stmt.Table
      [] stmt.kind = "DropTableStmt" -> stmt.Tables[1]
      [] stmt.kind = "RenameTableStmt" -> stmt.NewTable

\* the schema of the USE statement before statement i, "" when there is none
RECURSIVE UseBefore(_, _)
UseBefore(stmts, i) ==
    IF i <= 1 THEN ""
    ELSE IF IsUse(stmts[i - 1]) THEN stmts[i - 1].DBName
    ELSE UseBefore(stmts, i - 1)

(***************************************************************************)
(* C3  DDL schema non-emptiness: a transaction returned for a DDL record   *)
(* has a non-empty Database, and a DDL text that resolves to an empty      *)
(* schema yields an error and no transaction.                              *)
(***************************************************************************)
C3_SchemaNonEmpty ==
    /\ (Succeeded /\ IsDDL) => (txn.DDL # NilPtr /\ Len(txn.DDL.Database) > 0)
    /\ (ResolverSucceeded /\ Len(Resolved.schema) = 0) => Failed

\* an unqualified table statement without USE: resolved, schema empty, refused
C3_Witness ==
    /\ ResolverSucceeded /\ Len(Resolved.schema) = 0 /\ Len(Resolved.table) > 0
    /\ Failed /\ err = "can't parse database name from DDL"

(***************************************************************************)
(* C5  Qualifier precedence over USE: wherever the resolver succeeds on a  *)
(* text holding a table-bearing statement, the resolved schema is that     *)
(* statement's qualifier when it has one, and the schema of the preceding  *)
(* USE when it has none.                                                   *)
(***************************************************************************)
C5_QualifierPrecedence ==
    ResolverSucceeded =>
        \A i \in 1..Len(ParsedStmts) :
            ParsedStmts[i].kind \in TableBearingKinds =>
                Resolved.schema =
                    IF Len(TargetOf(ParsedStmts[i]).Schema) # 0
                    THEN TargetOf(ParsedStmts[i]).Schema
                    ELSE UseBefore(ParsedStmts, i)

AcceptedShape(stmts) ==
    \/ Len(stmts) = 1 /\ ~IsUse(stmts[1])
    \/ Len(stmts) = 2 /\ IsUse(stmts[1]) /\ ~IsUse(stmts[2])

(***************************************************************************)
(* C8  Accepted input shapes: the resolver succeeds only on one statement  *)
(* that is not a USE, or on a USE followed by one other statement.         *)
(***************************************************************************)
C8_AcceptedShapes == ResolverSucceeded => AcceptedShape(ParsedStmts)

CountRuleBroken(stmts) ==
    IF HasUse(stmts) THEN Len(stmts) # 2 ELSE Len(stmts) # 1

(***************************************************************************)
(* C9  Statement-count rejection.  As claimed: a text that parses, and     *)
(* holds a USE and not exactly 2 statements, or no USE and not exactly 1,  *)
(* fails with "invalid ddl".                                               *)
(***************************************************************************)
C9_CountRejection_AsClaimed ==
    (ResolverDone /\ binlog.DdlQuery.parses /\ CountRuleBroken(ParsedStmts))
        => (Failed /\ err = "invalid ddl")

\* C9 as amended: such a text fails; with "invalid ddl" when every one of
\* its statements is of a kind the resolver has a case for, and with
\* "unknown ddl type" when one is not.
C9_CountRejection ==
    (ResolverDone /\ binlog.DdlQuery.parses /\ CountRuleBroken(ParsedStmts))
        => /\ Failed
           /\ err = IF AllRecognised(ParsedStmts) THEN "invalid ddl" ELSE "unknown ddl type"

\* three recognised statements, a USE among them, each resolving by itself
C9_Witness ==
    /\ ResolverDone /\ binlog.DdlQuery.parses
    /\ Len(ParsedStmts) = 3 /\ HasUse(ParsedStmts) /\ AllRecognised(ParsedStmts)
    /\ Failed /\ err = "invalid ddl"

(***************************************************************************)
(* C10  Target identity: wherever the resolver succeeds on a text holding  *)
(* a Rename Table statement, the result is the schema and table of its new *)
(* table; on one holding a Drop Table statement, those of its first table. *)
(***************************************************************************)
C10_TargetIdentity ==
    ResolverSucceeded =>
        \A i \in 1..Len(ParsedStmts) :
            ParsedStmts[i].kind \in {"RenameTableStmt", "DropTableStmt"} =>
                /\ Resolved.table = TargetOf(ParsedStmts[i]).Name
                /\ Len(TargetOf(ParsedStmts[i]).Schema) # 0 =>
                      Resolved.schema = TargetOf(ParsedStmts[i]).Schema

====
